---- MODULE Spec2Model ----
(***************************************************************************)
(* Model of src/field/index.js (FeatureServer): the computation of esri    *)
(* field collections from metadata or from a sample of feature properties. *)
(*                                                                         *)
(* JavaScript values are tagged records, objects and arrays live in a heap *)
(* of references so that aliasing, cloning and in-place mutation (push,    *)
(* splice, unshift, Object.assign) are modelled as the code performs them. *)
(***************************************************************************)
EXTENDS Integers, Sequences, FiniteSets, TLC

VARIABLES
  pc,       \* "idle": no call in progress; "returned": a call has returned
  heap,     \* reference -> array or object (templates, caller data, results)
  call,     \* the call made by the caller, with the arguments as passed
  ret,      \* the value the call returned
  threw,    \* TRUE when the call ended with an exception instead of a value
  console   \* the console.warn lines written during the call

vars == <<pc, heap, call, ret, threw, console>>

-----------------------------------------------------------------------------
(* Bounds of the explored inputs *)

MaxLength  == 2   \* explicit field lengths range over -1..MaxLength
MaxKeys    == 2   \* keys in a properties sample
MaxMeta    == 2   \* entries in a metadata.fields array
MaxOutLen  == 3   \* pieces of text in an outFields string of any form
MaxOutNames == 2  \* names in a well-formed outFields list

-----------------------------------------------------------------------------
(* JavaScript values *)

JSValue(t, b, n, f, s) == [t |-> t, b |-> b, n |-> n, f |-> f, s |-> s]

Undefined == JSValue("undefined", FALSE, 0, 0, "")
Null      == JSValue("null", FALSE, 0, 0, "")
Bool(b)   == JSValue("boolean", b, 0, 0, "")
Num(n)    == JSValue("number", FALSE, n, 0, "")
\* a number with a fractional part: n + f/100
Frac(n, f) == JSValue("number", FALSE, n, f, "")
Str(s)    == JSValue("string", FALSE, 0, 0, s)
DateValue == JSValue("date", FALSE, 0, 0, "")
\* a reference to an object or array of the heap
Ref(r)    == JSValue("object", FALSE, r, 0, "")

IsRef(v) == v.t = "object"

\* JavaScript truthiness (the operand of !, && and ||)
Truthy(v) ==
  CASE v.t = "undefined" -> FALSE
    [] v.t = "null"      -> FALSE
    [] v.t = "boolean"   -> v.b
    [] v.t = "number"    -> (v.n # 0 \/ v.f # 0)
    [] v.t = "string"    -> v.s # ""
    [] OTHER             -> TRUE

\* a || b
Or(a, b) == IF Truthy(a) THEN a ELSE b

\* const x = v; F(x)
Let(v, F(_)) == F(v)

-----------------------------------------------------------------------------
(* The heap: arrays and objects *)

Arr(es) == [kind |-> "array", elems |-> es, props |-> <<>>]
Obj(ps) == [kind |-> "object", elems |-> <<>>, props |-> ps]

EmptyObject == Obj(<<>>)

NextRef(h) == (CHOOSE r \in DOMAIN h : \A q \in DOMAIN h : q <= r) + 1

\* new object or array
Alloc(h, cell) == [heap |-> h @@ (NextRef(h) :> cell), ret |-> NextRef(h)]

\* o.k
Get(h, v, k) ==
  IF IsRef(v) /\ h[v.n].kind = "object" /\ k \in DOMAIN h[v.n].props
    THEN h[v.n].props[k]
    ELSE Undefined

\* Object.assign(target, src): copies src's own properties onto target
ObjectAssign(h, target, src) ==
  LET old == h[target].props
      new == [k \in DOMAIN old \cup DOMAIN src |->
                IF k \in DOMAIN src THEN src[k] ELSE old[k]]
  IN  [h EXCEPT ![target] = Obj(new)]

\* array.push(v)
ArrayPush(h, a, v) == [h EXCEPT ![a] = Arr(Append(h[a].elems, v))]

\* array.unshift(v)
ArrayUnshift(h, a, v) == [h EXCEPT ![a] = Arr(<<v>> \o h[a].elems)]

\* array.splice(start, 1): removes in place, returns the removed elements.
\* A negative start counts from the end (-1 is the last element).
ArraySplice(h, a, start) ==
  LET es  == h[a].elems
      len == Len(es)
      from == IF start < 0 THEN (IF len + start < 0 THEN 0 ELSE len + start)
              ELSE (IF start > len THEN len ELSE start)
      cnt == IF len - from < 1 THEN len - from ELSE 1
  IN  [heap |-> [h EXCEPT ![a] = Arr(SubSeq(es, 1, from) \o SubSeq(es, from + cnt + 1, len))],
       removed |-> SubSeq(es, from + 1, from + cnt)]

\* array[0]
First(es) == IF Len(es) = 0 THEN Undefined ELSE es[1]

\* array.findIndex(field => field.name === name): 0-based, -1 when none
FindIndexByName(h, a, name) ==
  LET es == h[a].elems
      hits == {i \in 1..Len(es) : Get(h, es[i], "name") = name}
  IN  IF hits = {} THEN 0 - 1
      ELSE (CHOOSE i \in hits : \A j \in hits : i <= j) - 1

\* _.find(array, {name: name}) is not undefined
FindByName(h, a, name) ==
  \E i \in 1..Len(h[a].elems) : Get(h, h[a].elems[i], "name") = name

-----------------------------------------------------------------------------
(* Templates (templates/field.json, templates/oid-field.json) *)

templates == [field |-> 1, objectIDField |-> 2]

fieldTemplate ==
  Obj([k \in {"name", "type", "alias"} |-> Str("")])

objectIDFieldTemplate ==
  Obj([k \in {"name", "type", "alias"} |->
         IF k = "type" THEN Str("esriFieldTypeOID") ELSE Str("OBJECTID")])

TemplateHeap ==
  (templates.field :> fieldTemplate) @@ (templates.objectIDField :> objectIDFieldTemplate)

\* the templates as they are when a call starts (module state, shared by all calls)
Modules(h) == [r \in {templates.field, templates.objectIDField} |-> h[r]]

-----------------------------------------------------------------------------
(* detect-types *)

\* detectType(value)
detectType(v) ==
  CASE v.t = "number" /\ v.f = 0 -> Str("Integer")
    [] v.t = "number" /\ v.f # 0 -> Str("Double")
    [] v.t = "date"              -> Str("Date")
    [] OTHER                     -> Str("String")

\* String.prototype.toLowerCase on the type labels in use
toLowerCase(s) ==
  CASE s = "String"  -> "string"
    [] s = "Integer" -> "integer"
    [] s = "Double"  -> "double"
    [] s = "Date"    -> "date"
    [] OTHER         -> s

\* esriTypeMap(lowercase label)
esriTypeMap(s) ==
  CASE s = "double"  -> Str("esriFieldTypeDouble")
    [] s = "integer" -> Str("esriFieldTypeInteger")
    [] s = "date"    -> Str("esriFieldTypeDate")
    [] OTHER         -> Str("esriFieldTypeString")

-----------------------------------------------------------------------------
(* computeFieldObject *)

Returned(h, v) == [heap |-> h, ret |-> v, threw |-> FALSE]
Thrown(h)      == [heap |-> h, ret |-> Undefined, threw |-> TRUE]

\* if (context === 'layer') Object.assign(outputField, {editable: false, nullable: false})
LayerDecoration == [k \in {"editable", "nullable"} |-> Bool(FALSE)]

decorateForContext(h, outputField, context) ==
  IF context = Str("layer")
    THEN ObjectAssign(h, outputField, LayerDecoration)
    ELSE h

\* outputField.length = length || ((type === 'String') ? 128 : (type === 'Date') ? 36 : undefined)
fieldLength(type, length) ==
  Or(length, IF type = Str("String") THEN Num(128)
             ELSE IF type = Str("Date") THEN Num(36)
             ELSE Undefined)

\* Object.assign({}, template, props): a new object
assignNew(h, template, props) ==
  Let(Alloc(h, EmptyObject), LAMBDA a :
    [heap |-> ObjectAssign(ObjectAssign(a.heap, a.ret, a.heap[template].props), a.ret, props),
     ret  |-> a.ret])

computeFieldObject(h, name, alias, type, length, context) ==
  IF name = Str("OBJECTID")
    THEN Let(assignNew(h, templates.objectIDField, <<>>), LAMBDA outputField :
           Returned(decorateForContext(outputField.heap, outputField.ret, context),
                    Ref(outputField.ret)))
    ELSE IF type.t # "string"
      THEN Thrown(h)      \* type.toLowerCase() of a non-string
      ELSE Let(assignNew(h, templates.field,
                         [k \in {"name", "type", "alias"} |->
                            CASE k = "name" -> name
                              [] k = "type" -> esriTypeMap(toLowerCase(type.s))
                              [] OTHER      -> Or(alias, name)]),
               LAMBDA outputField :
                 Returned(decorateForContext(
                            ObjectAssign(outputField.heap, outputField.ret,
                                         [k \in {"length"} |-> fieldLength(type, length)]),
                            outputField.ret, context),
                          Ref(outputField.ret)))

-----------------------------------------------------------------------------
(* computeFieldsFromProperties *)

\* a properties object (feature.properties, feature.attributes, a statistics
\* record, options.attributeSample): its own keys in insertion order, or absent
NoSample     == [present |-> FALSE, props |-> <<>>]
Sample(ps)   == [present |-> TRUE, props |-> ps]

\* (mutant) the reordering step left out
unshiftSplicedSkipped(h, fields) == h

\* Ensure the OBJECTID field is first in the array:
\* fields.unshift(fields.splice(fields.findIndex(field => field.name === 'OBJECTID'), 1)[0])
unshiftSpliced(h, fields) ==
  Let(ArraySplice(h, fields, FindIndexByName(h, fields, Str("OBJECTID"))), LAMBDA s :
    ArrayUnshift(s.heap, fields, First(s.removed)))

\* Object.keys(properties).map(key =>
\*   computeFieldObject(key, key, detectType(properties[key]), undefined, requestContext))
RECURSIVE mapProperties(_, _, _, _)
mapProperties(h, props, requestContext, acc) ==
  IF Len(acc) = Len(props)
    THEN [heap |-> h, elems |-> acc, threw |-> FALSE]
    ELSE Let(props[Len(acc) + 1], LAMBDA p :
           Let(computeFieldObject(h, Str(p.key), Str(p.key), detectType(p.value),
                                  Undefined, requestContext), LAMBDA r :
             IF r.threw
               THEN [heap |-> r.heap, elems |-> acc, threw |-> TRUE]
               ELSE mapProperties(r.heap, props, requestContext, Append(acc, r.ret))))

\* fields.push(Object.assign({}, templates.objectIDField, {editable: false, nullable: false}))
pushObjectIdField(h, fields) ==
  Let(assignNew(h, templates.objectIDField, LayerDecoration), LAMBDA o :
    ArrayPush(o.heap, fields, Ref(o.ret)))

computeFieldsFromProperties(h, properties, requestContext, options) ==
  IF ~properties.present
    THEN LET a == Alloc(h, Arr(<<>>)) IN Returned(a.heap, Ref(a.ret))
    ELSE Let(mapProperties(h, properties.props, requestContext, <<>>), LAMBDA m :
           IF m.threw THEN Thrown(m.heap)
           ELSE Let(Alloc(m.heap, Arr(m.elems)), LAMBDA fields :
                  Let(Alloc(unshiftSpliced(
                              IF requestContext = Str("layer")
                                 /\ ~FindByName(fields.heap, fields.ret, Str("OBJECTID"))
                                THEN pushObjectIdField(fields.heap, fields.ret)
                                ELSE fields.heap,
                              fields.ret),
                            Obj([k \in {"oidField", "fields"} |->
                                   IF k = "oidField" THEN Str("OBJECTID")
                                   ELSE Ref(fields.ret)])),
                      LAMBDA res : Returned(res.heap, Ref(res.ret)))))

-----------------------------------------------------------------------------
(* computeFieldsFromMetadata *)

\* a string argument, as the sequence of its pieces of text ("a", "OBJECTID",
\* ",", " ", "*"), or absent
NoString     == [present |-> FALSE, chars |-> <<>>]
String(cs)   == [present |-> TRUE, chars |-> cs]

IsWhitespace(c) == c = " "

\* the text of a sequence of pieces
RECURSIVE Join(_)
Join(cs) == IF cs = <<>> THEN "" ELSE Head(cs) \o Join(Tail(cs))

\* the number of whitespace characters of s from position q on
WhitespaceRun(s, q) ==
  CHOOSE k \in 0..(Len(s) - q + 1) :
    /\ \A i \in q..(q + k - 1) : IsWhitespace(s[i])
    /\ (q + k > Len(s) \/ ~IsWhitespace(s[q + k]))

\* the length of the match of /\s*,\s*/ at position q of s, 0 when it does not match
MatchSeparator(s, q) ==
  LET before == WhitespaceRun(s, q)
  IN  IF q + before <= Len(s) /\ s[q + before] = ","
        THEN before + 1 + WhitespaceRun(s, q + before + 1)
        ELSE 0

\* outFieldsParam.split(/\s*,\s*/): p is where the current piece starts, q the
\* position the separator is tried at
RECURSIVE splitFrom(_, _, _, _)
splitFrom(s, p, q, acc) ==
  IF q > Len(s)
    THEN Append(acc, SubSeq(s, p, Len(s)))
    ELSE LET m == MatchSeparator(s, q)
         IN  IF m = 0
               THEN splitFrom(s, p, q + 1, acc)
               ELSE splitFrom(s, q + m, q + m, Append(acc, SubSeq(s, p, q - 1)))

split(s) == splitFrom(s, 1, 1, <<>>)

\* outFields.includes(v)
includes(outFields, v) ==
  \E i \in 1..Len(outFields) : Str(Join(outFields[i])) = v

\* (mutant) the filter spares OBJECTID
filterKeepingObjectId(h, responseFields, outFields) ==
  Alloc(h, Arr(SelectSeq(h[responseFields].elems,
                         LAMBDA field : \/ Get(h, field, "name") = Str("OBJECTID")
                                        \/ includes(outFields, Get(h, field, "name")))))

\* responseFields.filter(field => outFields.includes(field.name))
filterByOutFields(h, responseFields, outFields) ==
  Alloc(h, Arr(SelectSeq(h[responseFields].elems,
                         LAMBDA field : includes(outFields, Get(h, field, "name")))))

\* (mutant) no copy: the caller's array itself
cloneByReference(h, array) == [heap |-> h, ret |-> array]

\* _.clone(metadataFields): a shallow copy of the array
clone(h, array) == Alloc(h, Arr(h[array].elems))

\* (mutant) the OBJECTID entry put in front instead of appended
unshiftObjectIdName(h, responseFields) ==
  Let(Alloc(h, Obj([k \in {"name"} |-> Str("OBJECTID")])), LAMBDA o :
    ArrayUnshift(o.heap, responseFields, Ref(o.ret)))

\* responseFields.push({name: 'OBJECTID'})
pushObjectIdName(h, responseFields) ==
  Let(Alloc(h, Obj([k \in {"name"} |-> Str("OBJECTID")])), LAMBDA o :
    ArrayPush(o.heap, responseFields, Ref(o.ret)))

computeFieldsFromMetadata(h, metadataFields, outFieldsParam) ==
  Let(clone(h, metadataFields), LAMBDA responseFields :
    Let(IF ~FindByName(responseFields.heap, metadataFields, Str("OBJECTID"))
          THEN pushObjectIdName(responseFields.heap, responseFields.ret)
          ELSE responseFields.heap,
        LAMBDA h1 :
          IF outFieldsParam.present /\ outFieldsParam.chars # <<>>
             /\ outFieldsParam.chars # <<"*">>
            THEN filterByOutFields(h1, responseFields.ret, split(outFieldsParam.chars))
            ELSE [heap |-> h1, ret |-> responseFields.ret]))

-----------------------------------------------------------------------------
(* warnOnMetadataFieldDiscrepencies *)

\* Object.keys(properties).map(name => ({name, type: detectType(properties[name])}))
featureFieldsOf(properties) ==
  [i \in 1..Len(properties.props) |->
     [name |-> Str(properties.props[i].key), type |-> detectType(properties.props[i].value)]]

NotFoundWarning(name, type) ==
  [text |-> "not found in feature properties object", name |-> name, type |-> type,
   featureName |-> Undefined, featureType |-> Undefined]

TypeMismatchWarning(name, type, featureField) ==
  [text |-> "has a type mismatch with feature property", name |-> name, type |-> type,
   featureName |-> featureField.name, featureType |-> featureField.type]

\* (mutant) without the tolerance for Double metadata on Integer samples
warnOnFieldStrict(h, field, featureFields) ==
  LET name == Get(h, field, "name")
      type == Get(h, field, "type")
      hits == {i \in 1..Len(featureFields) : featureFields[i].name = name}
      featureField == featureFields[CHOOSE i \in hits : \A j \in hits : i <= j]
  IN  IF hits = {}
        THEN <<NotFoundWarning(name, type)>>
        ELSE IF /\ name # Str("OBJECTID")
                /\ ~(type = Str("Date") /\ featureField.type = Str("Integer"))
                /\ type # featureField.type
          THEN <<TypeMismatchWarning(name, type, featureField)>>
          ELSE <<>>

\* the body of metadataFields.forEach(field => ...): the lines written for one field
warnOnField(h, field, featureFields) ==
  LET name == Get(h, field, "name")
      type == Get(h, field, "type")
      hits == {i \in 1..Len(featureFields) : featureFields[i].name = name}
      featureField == featureFields[CHOOSE i \in hits : \A j \in hits : i <= j]
  IN  IF hits = {}
        THEN <<NotFoundWarning(name, type)>>
        ELSE IF /\ name # Str("OBJECTID")
                /\ ~(type = Str("Date") /\ featureField.type = Str("Integer"))
                /\ ~(type = Str("Double") /\ featureField.type = Str("Integer"))
                /\ type # featureField.type
          THEN <<TypeMismatchWarning(name, type, featureField)>>
          ELSE <<>>

RECURSIVE warnFrom(_, _, _, _)
warnFrom(h, fields, featureFields, i) ==
  IF i > Len(fields) THEN <<>>
  ELSE warnOnField(h, fields[i], featureFields) \o warnFrom(h, fields, featureFields, i + 1)

\* returns the heap as the call leaves it and the lines written to console.warn
warnOnMetadataFieldDiscrepencies(h, metadataFields, properties) ==
  [heap |-> h,
   console |-> warnFrom(h, h[metadataFields].elems, featureFieldsOf(properties), 1)]

-----------------------------------------------------------------------------
(* computeFieldsCollection *)

\* requestedFields.map(field =>
\*   computeFieldObject(field.name, field.alias, field.type, field.length, requestContext))
RECURSIVE mapRequestedFields(_, _, _, _)
mapRequestedFields(h, requestedFields, requestContext, acc) ==
  IF Len(acc) = Len(requestedFields)
    THEN [heap |-> h, elems |-> acc, threw |-> FALSE]
    ELSE Let(requestedFields[Len(acc) + 1], LAMBDA field :
           Let(computeFieldObject(h, Get(h, field, "name"), Get(h, field, "alias"),
                                  Get(h, field, "type"), Get(h, field, "length"),
                                  requestContext), LAMBDA r :
             IF r.threw
               THEN [heap |-> r.heap, elems |-> acc, threw |-> TRUE]
               ELSE mapRequestedFields(r.heap, requestedFields, requestContext,
                                       Append(acc, r.ret))))

\* (data.metadata || {}).fields
metadataFieldsOf(data) ==
  IF data.metadata.present THEN data.metadata.fields ELSE Undefined

\* feature ? feature.properties || feature.attributes : options.attributeSample
\* where feature = data.features && data.features[0]
propertiesOf(data, options) ==
  IF data.features.present /\ Len(data.features.items) > 0
    THEN Let(data.features.items[1], LAMBDA feature :
           IF feature.properties.present THEN feature.properties ELSE feature.attributes)
    ELSE options.attributeSample

\* data.statistics[0]
firstStatistics(data) ==
  IF Len(data.statistics.items) > 0 THEN data.statistics.items[1] ELSE NoSample

\* computeFieldsFromProperties(...).fields
fieldsOf(r) ==
  IF r.threw THEN [heap |-> r.heap, ret |-> Undefined, threw |-> TRUE, console |-> <<>>]
  ELSE [heap |-> r.heap, ret |-> Get(r.heap, r.ret, "fields"), threw |-> FALSE,
        console |-> <<>>]

\* the metadata branch of computeFieldsCollection (lines 36-50)
fieldsFromMetadata(h, fields, properties, requestContext, options) ==
  Let(computeFieldsFromMetadata(h, fields.n, options.outFields), LAMBDA requestedFields :
    Let(IF properties.present
          THEN warnOnMetadataFieldDiscrepencies(requestedFields.heap, requestedFields.ret,
                                                properties)
          ELSE [heap |-> requestedFields.heap, console |-> <<>>],
        LAMBDA w :
          Let(mapRequestedFields(w.heap, w.heap[requestedFields.ret].elems,
                                 requestContext, <<>>),
              LAMBDA m :
                IF m.threw
                  THEN [heap |-> m.heap, ret |-> Undefined, threw |-> TRUE,
                        console |-> w.console]
                  ELSE Let(Alloc(m.heap, Arr(m.elems)), LAMBDA responsefields :
                         [heap |-> unshiftSpliced(responsefields.heap, responsefields.ret),
                          ret |-> Ref(responsefields.ret), threw |-> FALSE,
                          console |-> w.console]))))

computeFieldsCollection(h, data, requestContext, options) ==
  IF ~Truthy(metadataFieldsOf(data)) /\ data.statistics.present
    THEN fieldsOf(computeFieldsFromProperties(h, firstStatistics(data), requestContext,
                                              options))
  ELSE IF ~Truthy(metadataFieldsOf(data))
    THEN fieldsOf(computeFieldsFromProperties(h, propertiesOf(data, options),
                                              requestContext, options))
  ELSE fieldsFromMetadata(h, metadataFieldsOf(data), propertiesOf(data, options),
                          requestContext, options)

-----------------------------------------------------------------------------
(* Inputs *)

FieldNames == {"a", "b", "OBJECTID"}
Contexts   == {Undefined, Str("layer"), Str("query")}
TypeLabels == {"String", "Integer", "Double", "Date"}
Aliases    == {Undefined, Str(""), Str("A")}
Lengths    == {Undefined} \cup {Num(n) : n \in (0 - 1)..MaxLength}

SampleValues == {Num(42), Frac(3, 14), Str("x"), DateValue, Null}

\* sequences of at most n distinct keys
KeySeqs(names, n) ==
  {ks \in UNION {[1..m -> names] : m \in 0..n} :
     \A i, j \in 1..Len(ks) : i # j => ks[i] # ks[j]}

SamplesOf(names, n, values) ==
  UNION {{[i \in 1..Len(ks) |-> [key |-> ks[i], value |-> vs[i]]] :
            vs \in [1..Len(ks) -> values]} : ks \in KeySeqs(names, n)}

Samples == {NoSample} \cup {Sample(ps) : ps \in SamplesOf(FieldNames, MaxKeys, SampleValues)}

NoOptions == [attributeSample |-> NoSample, outFields |-> NoString]

\* sequences over S of length at most n
SeqsUpTo(S, n) == UNION {[1..m -> S] : m \in 0..n}

\* the pieces of text an outFields string is made of
OutFieldsAlphabet == {"a", "OBJECTID", ",", " "}
OutFieldsParams ==
  {NoString, String(<<"*">>)}
    \cup {String(cs) : cs \in SeqsUpTo(OutFieldsAlphabet, MaxOutLen)}

\* metadata field entries {name, type}
MetadataEntries(names, types) == {[name |-> Str(n), type |-> Str(t)] : n \in names, t \in types}

\* the caller's heap: the loaded templates, the metadata.fields array and its entries
caller == [metadataFields |-> 3]

CallerHeap(h, entries) ==
  Modules(h)
    @@ (caller.metadataFields :> Arr([i \in 1..Len(entries) |-> Ref(caller.metadataFields + i)]))
    @@ [r \in {caller.metadataFields + i : i \in 1..Len(entries)} |->
          Obj(entries[r - caller.metadataFields])]

\* inputs of warnOnMetadataFieldDiscrepencies
WarnEntries ==
  MetadataEntries({"a"}, TypeLabels)
    \cup MetadataEntries({"OBJECTID"}, {"Integer"})
    \cup {[name |-> Str("OBJECTID")]}
WarnSamples ==
  {Sample(ps) : ps \in SamplesOf({"a", "OBJECTID"}, MaxKeys, SampleValues \ {Null})}

\* inputs of computeFieldsCollection
NoMetadata     == [present |-> FALSE, fields |-> Undefined]
EmptyMetadata  == [present |-> TRUE, fields |-> Undefined]
FieldsMetadata == [present |-> TRUE, fields |-> Ref(caller.metadataFields)]
Absent         == [present |-> FALSE, items |-> <<>>]
Items(xs)      == [present |-> TRUE, items |-> xs]
Feature(p, a)  == [properties |-> p, attributes |-> a]

CollectionSamples ==
  {Sample(ps) : ps \in SamplesOf({"a", "OBJECTID"}, MaxKeys, {Num(42), Str("x")})}

\* data without metadata.fields: every place a sample can come from
SampleData ==
  {[metadata |-> m, features |-> f, statistics |-> st] :
     m \in {NoMetadata, EmptyMetadata}, f \in {Absent, Items(<<>>)},
     st \in {Absent, Items(<<>>)}}
  \cup UNION {
     {[metadata |-> m, features |-> Absent, statistics |-> Items(<<s>>)],
      [metadata |-> m, features |-> Items(<<Feature(s, NoSample)>>), statistics |-> Absent],
      [metadata |-> m, features |-> Items(<<Feature(NoSample, s)>>), statistics |-> Absent],
      [metadata |-> m, features |-> Items(<<Feature(Sample(<<>>), NoSample)>>),
       statistics |-> Items(<<s>>)]} :
     m \in {NoMetadata, EmptyMetadata}, s \in CollectionSamples}

CollectionEntries ==
  MetadataEntries({"a"}, {"Date"})
    \cup MetadataEntries({"OBJECTID"}, {"Integer"})
    \cup {[name |-> Str("b")]}
    \cup {[name |-> Str("a"), type |-> Str("String"), alias |-> Str("A"), length |-> Num(0)]}

MetadataSamples ==
  {NoSample} \cup {Sample(ps) : ps \in SamplesOf({"a"}, MaxKeys, {Num(42), Str("x")})}

\* the names joined by commas: <<"a", "b">> is "a,b"
CommaSeparated(names) ==
  [i \in 1..(2 * Len(names) - 1) |-> IF i % 2 = 1 THEN names[(i + 1) \div 2] ELSE ","]

CollectionOutFields ==
  {NoString, String(<<"*">>)}
    \cup {String(CommaSeparated(names)) : names \in SeqsUpTo({"a", "OBJECTID"}, MaxOutNames)}

-----------------------------------------------------------------------------
(* Actions *)

Init ==
  /\ pc = "idle"
  /\ heap = TemplateHeap
  /\ call = [op |-> "none"]
  /\ ret = Undefined
  /\ threw = FALSE
  /\ console = <<>>

Finish(c, r, out) ==
  /\ pc' = "returned"
  /\ heap' = r.heap
  /\ ret' = r.ret
  /\ threw' = r.threw
  /\ console' = out
  /\ call' = c

CallComputeFieldObject ==
  /\ pc = "idle"
  /\ \E name \in FieldNames, alias \in Aliases,
        type \in {Undefined} \cup {Str(t) : t \in TypeLabels \cup {"string"}},
        length \in Lengths, context \in Contexts :
       \E r \in {computeFieldObject(Modules(heap), Str(name), alias, type, length, context)} :
         Finish([op |-> "computeFieldObject", name |-> Str(name), alias |-> alias,
                 type |-> type, length |-> length, context |-> context], r, <<>>)

CallComputeFieldsFromProperties ==
  /\ pc = "idle"
  /\ \E properties \in Samples, requestContext \in Contexts :
       \E r \in {computeFieldsFromProperties(Modules(heap), properties, requestContext,
                                             NoOptions)} :
         Finish([op |-> "computeFieldsFromProperties", properties |-> properties,
                 requestContext |-> requestContext, options |-> NoOptions], r, <<>>)

CallComputeFieldsFromMetadata ==
  /\ pc = "idle"
  /\ \E entries \in SeqsUpTo(MetadataEntries(FieldNames, {"String"}), MaxMeta),
        outFieldsParam \in OutFieldsParams :
       \E r \in {computeFieldsFromMetadata(CallerHeap(heap, entries), caller.metadataFields,
                                           outFieldsParam)} :
           Finish([op |-> "computeFieldsFromMetadata", metadataFields |-> entries,
                   outFieldsParam |-> outFieldsParam],
                  Returned(r.heap, Ref(r.ret)), <<>>)

CallWarnOnMetadataFieldDiscrepencies ==
  /\ pc = "idle"
  /\ \E entries \in SeqsUpTo(WarnEntries, MaxMeta), properties \in WarnSamples :
       \E r \in {warnOnMetadataFieldDiscrepencies(CallerHeap(heap, entries),
                                                  caller.metadataFields, properties)} :
           Finish([op |-> "warnOnMetadataFieldDiscrepencies", metadataFields |-> entries,
                   properties |-> properties],
                  Returned(r.heap, Undefined), r.console)

\* computeFieldsCollection on data without metadata.fields
CallComputeFieldsCollectionFromSample ==
  /\ pc = "idle"
  /\ \E data \in SampleData, requestContext \in Contexts,
        attributeSample \in {NoSample} \cup CollectionSamples :
       \E options \in {[attributeSample |-> attributeSample, outFields |-> NoString]} :
       \E r \in {computeFieldsCollection(Modules(heap), data, requestContext, options)} :
           /\ attributeSample.present => ~data.features.present /\ ~data.statistics.present
           /\ Finish([op |-> "computeFieldsCollection", data |-> data, metadataFields |-> <<>>,
                      requestContext |-> requestContext, options |-> options],
                     r, r.console)

\* computeFieldsCollection on data with metadata.fields
CallComputeFieldsCollectionFromMetadata ==
  /\ pc = "idle"
  /\ \E entries \in SeqsUpTo(CollectionEntries, MaxMeta),
        properties \in MetadataSamples, fromFeature \in BOOLEAN,
        requestContext \in {Str("layer"), Str("query")},
        outFields \in CollectionOutFields :
       \E data \in {[metadata |-> FieldsMetadata,
                      features |-> IF fromFeature /\ properties.present
                                     THEN Items(<<Feature(properties, NoSample)>>) ELSE Absent,
                      statistics |-> Absent]},
          options \in {[attributeSample |-> IF fromFeature THEN NoSample ELSE properties,
                        outFields |-> outFields]} :
       \E r \in {computeFieldsCollection(CallerHeap(heap, entries), data, requestContext,
                                         options)} :
           Finish([op |-> "computeFieldsCollection", data |-> data, metadataFields |-> entries,
                   requestContext |-> requestContext, options |-> options],
                  r, r.console)

\* the caller takes the result; the module (and its templates) stays loaded
Return ==
  /\ pc = "returned"
  /\ pc' = "idle"
  /\ heap' = Modules(heap)
  /\ call' = [op |-> "none"]
  /\ ret' = Undefined
  /\ threw' = FALSE
  /\ console' = <<>>

Next ==
  \/ CallComputeFieldObject
  \/ CallComputeFieldsFromProperties
  \/ CallComputeFieldsFromMetadata
  \/ CallWarnOnMetadataFieldDiscrepencies
  \/ CallComputeFieldsCollectionFromSample
  \/ CallComputeFieldsCollectionFromMetadata
  \/ Return

Spec == Init /\ [][Next]_vars

-----------------------------------------------------------------------------
(* Reading a returned state *)

Layer == Str("layer")
ObjectId == Str("OBJECTID")

IsArray(v) == IsRef(v) /\ heap[v.n].kind = "array"

\* the collection a call returned: computeFieldsCollection returns the array,
\* computeFieldsFromProperties returns {oidField, fields} (or [] without a sample)
ReturnedCollection ==
  IF call.op = "computeFieldsFromProperties" /\ ~IsArray(ret)
    THEN Get(heap, ret, "fields")
    ELSE ret

ReturnedElems == heap[ReturnedCollection.n].elems
ReturnedNames == [i \in 1..Len(ReturnedElems) |-> Get(heap, ReturnedElems[i], "name")]

ReturnedFrom(op) == pc = "returned" /\ call.op = op /\ ~threw

\* the keys of the sample a call derived its fields from
SampleOfCall ==
  IF call.op = "computeFieldsFromProperties" THEN call.properties
  ELSE IF call.data.statistics.present THEN firstStatistics(call.data)
  ELSE propertiesOf(call.data, call.options)

SampleKeys == [i \in 1..Len(SampleOfCall.props) |-> Str(SampleOfCall.props[i].key)]

\* the call is computeFieldsCollection taking its metadata branch
FromMetadataFields == call.op = "computeFieldsCollection" /\ Truthy(metadataFieldsOf(call.data))
FromSample ==
  \/ call.op = "computeFieldsFromProperties"
  \/ call.op = "computeFieldsCollection" /\ ~Truthy(metadataFieldsOf(call.data))

Positions(seq, x) == {i \in 1..Len(seq) : seq[i] = x}

-----------------------------------------------------------------------------
(* Claims *)

\* C1: every field collection computeFieldsCollection returns holds exactly one
\* field named OBJECTID, and that field is the first element.
C1_ObjectIdOnceAndFirst ==
  (ReturnedFrom("computeFieldsCollection") /\ IsArray(ret))
    => Positions(ReturnedNames, ObjectId) = {1}

\* C2: for a non-empty sample computeFieldsFromProperties returns exactly one
\* field per key of the sample (plus the OBJECTID field injected in layer
\* context), and the OBJECTID field, when there is one, is the first element.
C2_OneFieldPerKey ==
  (ReturnedFrom("computeFieldsFromProperties") /\ call.properties.present
     /\ Len(call.properties.props) > 0)
    => LET injected == call.requestContext = Layer /\ Positions(SampleKeys, ObjectId) = {}
       IN  /\ \A i \in 1..Len(SampleKeys) :
                Cardinality(Positions(ReturnedNames, SampleKeys[i])) = 1
           /\ Len(ReturnedNames) = Len(SampleKeys) + (IF injected THEN 1 ELSE 0)
           /\ Cardinality(Positions(ReturnedNames, ObjectId))
                = (IF injected \/ Positions(SampleKeys, ObjectId) # {} THEN 1 ELSE 0)
           /\ (injected \/ Positions(SampleKeys, ObjectId) # {}) => ReturnedNames[1] = ObjectId

\* a sample whose OBJECTID key is not its first key: the field was moved to the front
C2_Witness ==
  /\ ReturnedFrom("computeFieldsFromProperties")
  /\ call.properties.present
  /\ Len(SampleKeys) = 2 /\ SampleKeys[2] = ObjectId
  /\ ReturnedNames = <<ObjectId, SampleKeys[1]>>

\* C5: without metadata fields and without any sample computeFieldsCollection
\* returns an empty sequence, and so does computeFieldsFromProperties without a sample.
C5_EmptySequenceWithoutSample ==
  /\ (pc = "returned" /\ call.op = "computeFieldsCollection"
        /\ ~Truthy(metadataFieldsOf(call.data)) /\ ~SampleOfCall.present)
       => (~threw /\ IsArray(ret) /\ ReturnedElems = <<>>)
  /\ (pc = "returned" /\ call.op = "computeFieldsFromProperties" /\ ~call.properties.present)
       => (~threw /\ IsArray(ret) /\ ReturnedElems = <<>>)

\* C6: in layer context every element returned by computeFieldObject,
\* computeFieldsFromProperties and computeFieldsCollection carries editable: false
\* and nullable: false; in another context computeFieldObject adds neither.
Decorated(v) ==
  /\ IsRef(v)
  /\ {"editable", "nullable"} \subseteq DOMAIN heap[v.n].props
  /\ Get(heap, v, "editable") = Bool(FALSE)
  /\ Get(heap, v, "nullable") = Bool(FALSE)

C6_LayerDecoration ==
  /\ (ReturnedFrom("computeFieldObject") /\ call.context = Layer) => Decorated(ret)
  /\ (ReturnedFrom("computeFieldObject") /\ call.context # Layer)
       => DOMAIN heap[ret.n].props \cap {"editable", "nullable"} = {}
  /\ ((ReturnedFrom("computeFieldsFromProperties") \/ ReturnedFrom("computeFieldsCollection"))
        /\ call.requestContext = Layer /\ IsRef(ReturnedCollection))
       => \A i \in 1..Len(ReturnedElems) : Decorated(ReturnedElems[i])

\* C7: for a name other than OBJECTID computeFieldObject sets length to the
\* explicit length when one is given, else 128 for type "String", else 36 for
\* type "Date", else leaves it undefined.
C7_Length ==
  (ReturnedFrom("computeFieldObject") /\ call.name # ObjectId)
    => Get(heap, ret, "length")
         = (IF call.length # Undefined THEN call.length
            ELSE IF call.type = Str("String") THEN Num(128)
            ELSE IF call.type = Str("Date") THEN Num(36)
            ELSE Undefined)

\* the sequence the reordering step received: the fields in sample key order
\* (with the injected OBJECTID last), or the requested metadata fields in order
RequestedNames ==
  LET r == computeFieldsFromMetadata(CallerHeap(TemplateHeap, call.metadataFields),
                                     caller.metadataFields, call.options.outFields)
  IN  [i \in 1..Len(r.heap[r.ret].elems) |-> Get(r.heap, r.heap[r.ret].elems[i], "name")]

BeforeReordering ==
  IF FromMetadataFields THEN RequestedNames
  ELSE IF call.requestContext = Layer /\ Positions(SampleKeys, ObjectId) = {}
    THEN Append(SampleKeys, ObjectId)
    ELSE SampleKeys

\* C10: the identifier-first reordering moves only the OBJECTID field: the other
\* fields keep their order, nothing is added, and a sequence without an
\* OBJECTID field (or an empty one) is left as it is.
C10_ReorderingMovesOnlyObjectId ==
  ((ReturnedFrom("computeFieldsFromProperties") \/ ReturnedFrom("computeFieldsCollection"))
     /\ IsRef(ReturnedCollection)
     /\ (FromSample => SampleOfCall.present))
    => /\ Len(ReturnedElems) = Len(BeforeReordering)
       /\ Positions(BeforeReordering, ObjectId) = {} => ReturnedNames = BeforeReordering
       /\ Positions(BeforeReordering, ObjectId) # {}
            => /\ ReturnedNames[1] = ObjectId
               /\ \E i \in Positions(BeforeReordering, ObjectId) :
                    Tail(ReturnedNames)
                      = SubSeq(BeforeReordering, 1, i - 1)
                          \o SubSeq(BeforeReordering, i + 1, Len(BeforeReordering))

\* the entries a call passed as metadata fields, and those entries with
\* {name: 'OBJECTID'} appended when none of them is named OBJECTID
Prop(entry, k) == IF k \in DOMAIN entry THEN entry[k] ELSE Undefined
EntryNames(entries) == [i \in 1..Len(entries) |-> Prop(entries[i], "name")]

WithObjectId(entries) ==
  IF Positions(EntryNames(entries), ObjectId) = {}
    THEN Append(entries, [name |-> ObjectId])
    ELSE entries

\* name is one of the comma-separated names of the string s: it stands between
\* two commas (or an end of the string), whitespace around the commas apart
Listed(s, name) ==
  \E i \in 1..Len(s) :
    /\ Str(s[i]) = name
    /\ \/ i = 1
       \/ \E k \in 1..(i - 1) : s[k] = "," /\ \A m \in (k + 1)..(i - 1) : s[m] = " "
    /\ \/ i = Len(s)
       \/ \E k \in (i + 1)..Len(s) : s[k] = "," /\ \A m \in (i + 1)..(k - 1) : s[m] = " "

\* outFields was given (a non-empty string) and is not the wildcard
Filtering(outFields) ==
  outFields.present /\ outFields.chars # <<>> /\ outFields.chars # <<"*">>

\* the entries of the returned array
ReturnedEntries == [i \in 1..Len(ReturnedElems) |-> heap[ReturnedElems[i].n].props]

\* C3 as stated: for metadata without an OBJECTID entry the output of
\* computeFieldsFromMetadata holds exactly one OBJECTID entry, the last one,
\* whatever outFields is.
C3_ObjectIdAppendedWhateverOutFields ==
  (ReturnedFrom("computeFieldsFromMetadata")
     /\ Positions(EntryNames(call.metadataFields), ObjectId) = {})
    => Positions(ReturnedNames, ObjectId) = {Len(ReturnedNames)}

\* C3 amended: for metadata without an OBJECTID entry the output holds exactly
\* one OBJECTID entry, the last one, when outFields is absent, empty, "*" or a
\* list naming OBJECTID; when outFields is a list that does not name OBJECTID
\* the output holds no OBJECTID entry.
C3_ObjectIdAppendedUnlessFilteredOut ==
  (ReturnedFrom("computeFieldsFromMetadata")
     /\ Positions(EntryNames(call.metadataFields), ObjectId) = {})
    => IF Filtering(call.outFieldsParam) /\ ~Listed(call.outFieldsParam.chars, ObjectId)
         THEN Positions(ReturnedNames, ObjectId) = {}
         ELSE Positions(ReturnedNames, ObjectId) = {Len(ReturnedNames)}

\* metadata [a] filtered by a list naming a and OBJECTID: OBJECTID comes after a
C3_Witness ==
  /\ ReturnedFrom("computeFieldsFromMetadata")
  /\ Positions(EntryNames(call.metadataFields), ObjectId) = {}
  /\ Len(call.metadataFields) > 0
  /\ Filtering(call.outFieldsParam) /\ Listed(call.outFieldsParam.chars, ObjectId)
  /\ Len(ReturnedNames) = 2 /\ ReturnedNames[2] = ObjectId

\* C4: when outFields is given and is not "*", computeFieldsFromMetadata returns
\* exactly the entries (of the metadata with OBJECTID appended if missing) whose
\* name is listed in outFields, in metadata order; OBJECTID is filtered like the rest.
C4_FilteredInMetadataOrder ==
  (ReturnedFrom("computeFieldsFromMetadata") /\ Filtering(call.outFieldsParam))
    => ReturnedEntries
         = SelectSeq(WithObjectId(call.metadataFields),
                     LAMBDA e : Listed(call.outFieldsParam.chars, Prop(e, "name")))

\* outFields "OBJECTID,a" on metadata [a, OBJECTID] returns [a, OBJECTID]
C4_Witness ==
  /\ ReturnedFrom("computeFieldsFromMetadata")
  /\ call.outFieldsParam = String(<<"OBJECTID", ",", "a">>)
  /\ EntryNames(call.metadataFields) = <<Str("a"), ObjectId>>
  /\ ReturnedNames = <<Str("a"), ObjectId>>

\* the fields and the sample discrepancy detection ran on
DetectionRan ==
  \/ call.op = "warnOnMetadataFieldDiscrepencies"
  \/ FromMetadataFields /\ propertiesOf(call.data, call.options).present

DetectionSample ==
  IF call.op = "warnOnMetadataFieldDiscrepencies" THEN call.properties
  ELSE propertiesOf(call.data, call.options)

DetectionFields ==
  IF call.op = "warnOnMetadataFieldDiscrepencies" THEN call.metadataFields
  ELSE LET r == computeFieldsFromMetadata(CallerHeap(TemplateHeap, call.metadataFields),
                                          caller.metadataFields, call.options.outFields)
       IN  [i \in 1..Len(r.heap[r.ret].elems) |-> r.heap[r.heap[r.ret].elems[i].n].props]

\* the detected types of the sample properties named name
DetectedTypes(name) ==
  {detectType(DetectionSample.props[i].value) :
     i \in {j \in 1..Len(DetectionSample.props) : Str(DetectionSample.props[j].key) = name}}

ExpectedWarning(field) ==
  LET name == Prop(field, "name")
      type == Prop(field, "type")
  IN  IF \A d \in DetectedTypes(name) : FALSE THEN "not found in feature properties object"
      ELSE IF /\ name # ObjectId
              /\ \E d \in DetectedTypes(name) :
                   /\ type # d
                   /\ <<type, d>> \notin {<<Str("Date"), Str("Integer")>>,
                                          <<Str("Double"), Str("Integer")>>}
        THEN "has a type mismatch with feature property"
        ELSE "none"

\* the fields that deserve a warning, in order
Flagged(fields) == SelectSeq(fields, LAMBDA field : ExpectedWarning(field) # "none")

\* what the call returned, element by element
ResultOf(h, r) ==
  [threw |-> r.threw,
   isArray |-> IsRef(r.ret),
   fields |-> IF r.threw \/ ~IsRef(r.ret) THEN <<>>
              ELSE [i \in 1..Len(h[r.ret.n].elems) |->
                      LET e == h[r.ret.n].elems[i]
                      IN  [defined |-> IsRef(e),
                           props |-> IF IsRef(e) THEN h[e.n].props ELSE <<>>]]]

WithoutSample ==
  computeFieldsCollection(CallerHeap(TemplateHeap, call.metadataFields),
                          [call.data EXCEPT !.features = Absent], call.requestContext,
                          [call.options EXCEPT !.attributeSample = NoSample])

\* C8: discrepancy detection writes at most one warning per requested metadata
\* field: not-found exactly when no sample property has its name, type-mismatch
\* exactly when one has, the field is not OBJECTID, the types differ and the
\* pair is neither (Date, Integer) nor (Double, Integer); it does not change
\* the fields computeFieldsCollection returns.
C8_WarningsPerField ==
  /\ (pc = "returned" /\ DetectionRan)
       => \E flagged \in {Flagged(DetectionFields)} :
            /\ Len(console) = Len(flagged)
            /\ \A k \in 1..Len(flagged) :
                 /\ console[k].text = ExpectedWarning(flagged[k])
                 /\ console[k].name = Prop(flagged[k], "name")
                 /\ console[k].type = Prop(flagged[k], "type")
  /\ (pc = "returned" /\ call.op = "warnOnMetadataFieldDiscrepencies")
       => heap = CallerHeap(TemplateHeap, call.metadataFields)
  /\ (pc = "returned" /\ FromMetadataFields /\ DetectionRan)
       => \E r \in {WithoutSample} :
            ResultOf(heap, [ret |-> ret, threw |-> threw]) = ResultOf(r.heap, r)

\* a collection computed from metadata while a sample of another type raised a warning
C8_Witness ==
  /\ ReturnedFrom("computeFieldsCollection") /\ FromMetadataFields /\ DetectionRan
  /\ Len(console) = 1
  /\ console[1].text = "has a type mismatch with feature property"
  /\ console[1].type = Str("String") /\ console[1].featureType = Str("Integer")
  /\ Len(ReturnedElems) = 2

\* the call received a metadata.fields array
WithMetadataFields ==
  \/ call.op \in {"computeFieldsFromMetadata", "warnOnMetadataFieldDiscrepencies"}
  \/ FromMetadataFields

\* the references that exist when the call starts: the templates, and the
\* caller's metadata.fields array with its entries
CallerRefs ==
  {templates.field, templates.objectIDField}
    \cup (IF WithMetadataFields
            THEN caller.metadataFields..(caller.metadataFields + Len(call.metadataFields))
            ELSE {})

\* C9: no call changes the caller's metadata.fields array (length, order,
\* entries) or the field and identifier-field templates, and every field
\* returned by computeFieldsCollection, computeFieldsFromProperties and
\* computeFieldObject is a new object, none of the templates.
C9_InputsAndTemplatesUnchanged ==
  /\ Modules(heap) = TemplateHeap
  /\ (pc = "returned" /\ WithMetadataFields)
       => \A r \in CallerRefs : heap[r] = CallerHeap(TemplateHeap, call.metadataFields)[r]
  /\ ReturnedFrom("computeFieldObject") => ret.n \notin CallerRefs
  /\ ((ReturnedFrom("computeFieldsFromProperties") \/ ReturnedFrom("computeFieldsCollection"))
        /\ IsRef(ReturnedCollection))
       => /\ ReturnedCollection.n \notin CallerRefs
          /\ \A i \in 1..Len(ReturnedElems) :
               IsRef(ReturnedElems[i]) => ReturnedElems[i].n \notin CallerRefs
          /\ \A i, j \in 1..Len(ReturnedElems) :
               (i # j /\ IsRef(ReturnedElems[i])) => ReturnedElems[i] # ReturnedElems[j]

\* a layer collection computed from metadata that had no OBJECTID entry: an
\* entry was appended and the fields were decorated
C9_Witness ==
  /\ ReturnedFrom("computeFieldsCollection") /\ FromMetadataFields
  /\ call.requestContext = Layer
  /\ Len(call.metadataFields) = 1
  /\ Positions(EntryNames(call.metadataFields), ObjectId) = {}
  /\ Len(ReturnedElems) = 2
  /\ \A i \in 1..2 : Decorated(ReturnedElems[i])

====
